---- MODULE Spec2Model ----
(***************************************************************************)
(* A model of ARC4CryptoTransform (src/ARC4Plus.py): the dual S-block      *)
(* stream cipher with LCR table seeding, KSA with warm-up, the PRGA step,  *)
(* the two-byte combiner, the buffer transforms and dispose().             *)
(*                                                                         *)
(* Python lists and byte strings are modelled as functions over 0..n-1 for *)
(* the S-blocks and as sequences (1-based) for keys, IVs and buffers; an   *)
(* index i of the source is i+1 in a sequence.                             *)
(***************************************************************************)
EXTENDS Integers, Sequences, FiniteSets, TLC

\* ------------------------------------------------------------------ bounds

\* Longest caller buffer (input and output) the model enumerates.
MaxLen == 2

\* Most transform calls (transform_block, transform_final_block) made on an engine.
MaxCalls == 2

\* ------------------------------------------------------- program constants

\* Length of an S-block: [0] * 256, range(256).
BlockSize == 256

\* The required length of the initialization vector.
IvLength == 4

\* The value added to every IV byte for the second S-block.
IvShift == 128

\* The two shift distances of the combiner: k1 << 5 and k2 >> 3.
ShiftLeft == 5

ShiftRight == 3

\* _A: the multipliers of the linear congruential transformation.
_A ==
  << 9, 13, 17, 21, 25, 29, 33, 37,
     41, 45, 49, 53, 57, 61, 65, 69,
     73, 77, 81, 85, 89, 93, 97, 101,
     105, 109, 113, 117, 121, 125, 129, 133,
     137, 141, 145, 149, 153, 157, 161, 165,
     169, 173, 177, 181, 185, 189, 193, 197,
     201, 205, 209, 213, 217, 221, 225, 229,
     233, 237, 241, 245, 249 >>

\* _C: the increments of the linear congruential transformation.
_C ==
  << 5, 7, 11, 13, 17, 19, 23, 29,
     31, 37, 41, 43, 47, 53, 59, 61,
     67, 71, 73, 79, 83, 89, 97, 101,
     103, 107, 109, 113, 127, 131, 137, 139,
     149, 151, 157, 163, 167, 173, 179, 181,
     191, 193, 197, 199, 211, 223, 227, 229,
     233, 239, 241, 251 >>

\* ------------------------------------------------------- integer operators

RECURSIVE Pow2(_)
Pow2(n) == IF n = 0 THEN 1 ELSE 2 * Pow2(n - 1)

\* Python's a ^ b on non-negative integers of any size.
RECURSIVE BitXor(_, _)
BitXor(a, b) ==
  IF a = 0 THEN b
  ELSE IF b = 0 THEN a
  ELSE ((a + b) % 2) + 2 * BitXor(a \div 2, b \div 2)

\* Python's a | b on non-negative integers of any size.
RECURSIVE BitOr(_, _)
BitOr(a, b) ==
  IF a = 0 THEN b
  ELSE IF b = 0 THEN a
  ELSE (IF a % 2 = 1 \/ b % 2 = 1 THEN 1 ELSE 0) + 2 * BitOr(a \div 2, b \div 2)

\* x & 0xFF
Byte(x) == x % BlockSize

\* A swap that loses an entry: sblock[i] = sblock[j] alone.
SwapOverwrite(sblock, i, j) == [sblock EXCEPT ![i] = sblock[j]]

\* sblock[i], sblock[j] = sblock[j], sblock[i]
Swap(sblock, i, j) == [sblock EXCEPT ![i] = sblock[j], ![j] = sblock[i]]

\* ------------------------------------------------------------ Python values

\* A buffer value: bytes, bytearray or list of ints; None is a value of its own.
Buf(kind, data) == [kind |-> kind, data |-> data]

None == Buf("None", << >>)

\* bytearray(n), [0] * n
Zeros(n) == [i \in 1..n |-> 0]

\* The result of a call that raised: the exception type and its message.
Raised(exc, msg) == [exc |-> exc, msg |-> msg]

NoError == Raised("", "")

\* The cipher state of one engine: both S-blocks and the four indices.
State(b1, b2, i1, j1, i2, j2) ==
  [s1 |-> b1, s2 |-> b2, x1 |-> i1, y1 |-> j1, x2 |-> i2, y2 |-> j2]

\* [0] * 256
ZeroBlock == [i \in 0..(BlockSize - 1) |-> 0]

\* ---------------------------------------------------------------- the cipher

\* One iteration of the loop of _lcr: x = (a * x + c) & 0xFF; sblock[i] = r ^ x.
LcrStep(st, r, a, c, i) ==
  LET nx == Byte(a * st.x + c)
  IN [sblock |-> [st.sblock EXCEPT ![i] = BitXor(r, nx)], x |-> nx]

\* The iterations lo .. hi-1 of the loop of _lcr, in order (the range is halved
\* so that the evaluation stays shallow; the order of the iterations is kept, and
\* the test on the first half only makes it be evaluated before the second).
RECURSIVE LcrLoop(_, _, _, _, _, _)
LcrLoop(st, r, a, c, lo, hi) ==
  IF hi <= lo THEN st
  ELSE IF hi = lo + 1 THEN LcrStep(st, r, a, c, lo)
  ELSE LET mid == (lo + hi) \div 2
           half == LcrLoop(st, r, a, c, lo, mid)
       IN IF half.x \in Int THEN LcrLoop(half, r, a, c, mid, hi) ELSE st

\* _lcr(sblock, iv): the block filled from the four seed bytes iv[0..3].
_lcr(sblock, iv) ==
  LET r == iv[1]
      x == iv[2]
      a == _A[(iv[3] % Len(_A)) + 1]
      c == _C[(iv[4] % Len(_C)) + 1]
  IN LcrLoop([sblock |-> sblock, x |-> x], r, a, c, 0, BlockSize).sblock

\* _prga(sblock): one step on the S-block `which` (1 for _s1, 2 for _s2). The
\* method reads and writes self._x1 and self._y1 whichever block it is given.
_prga(e, which) ==
  LET sblock == IF which = 1 THEN e.s1 ELSE e.s2
      x == Byte(e.x1 + 1)
      y == Byte(e.y1 + sblock[x])
      swapped == Swap(sblock, x, y)
  IN IF which = 1
       THEN [e EXCEPT !.x1 = x, !.y1 = y, !.s1 = swapped]
       ELSE [e EXCEPT !.x1 = x, !.y1 = y, !.s2 = swapped]

\* One iteration of the first loop of _ksa:
\* j = (j + sblock[i] + key[i % key_length]) % 256, then the swap.
KsaStep(st, key, i) ==
  LET nj == (st.j + st.sblock[i] + key[(i % Len(key)) + 1]) % BlockSize
  IN [sblock |-> Swap(st.sblock, i, nj), j |-> nj]

\* The iterations lo .. hi-1 of the first loop of _ksa, in order.
RECURSIVE KsaMix(_, _, _, _)
KsaMix(st, key, lo, hi) ==
  IF hi <= lo THEN st
  ELSE IF hi = lo + 1 THEN KsaStep(st, key, lo)
  ELSE LET mid == (lo + hi) \div 2
           half == KsaMix(st, key, lo, mid)
       IN IF half.j \in Int THEN KsaMix(half, key, mid, hi) ELSE st

\* The second loop of _ksa: n calls of _prga on the block, outputs discarded.
RECURSIVE KsaSkip(_, _, _)
KsaSkip(e, which, n) ==
  IF n <= 0 THEN e
  ELSE IF n = 1 THEN _prga(e, which)
  ELSE LET half == KsaSkip(e, which, n \div 2)
       IN IF half.x1 \in Int THEN KsaSkip(half, which, n - (n \div 2)) ELSE e

\* _ksa(sblock, key) for a key of length >= 1 (an empty key raises at i % 0,
\* see Construct).
_ksa(e, which, key) ==
  LET mixed == IF which = 1
                 THEN [e EXCEPT !.s1 = KsaMix([sblock |-> e.s1, j |-> 0], key, 0, BlockSize).sblock]
                 ELSE [e EXCEPT !.s2 = KsaMix([sblock |-> e.s2, j |-> 0], key, 0, BlockSize).sblock]
  IN KsaSkip(mixed, which, BlockSize)

\* The IV of the second block: every byte plus 128, rotated left by one.
ShiftedIv(iv) ==
  LET shifted == [i \in 1..IvLength |-> Byte(iv[i] + IvShift)]
  IN SubSeq(shifted, 2, IvLength) \o << shifted[1] >>

\* The two _lcr calls of _initialize.
InitializeLcr(e, iv) ==
  [e EXCEPT !.s1 = _lcr(e.s1, iv), !.s2 = _lcr(e.s2, ShiftedIv(iv))]

\* _initialize(key, iv) for a key of length >= 1.
_initialize(e, key, iv) == _ksa(_ksa(InitializeLcr(e, iv), 1, key), 2, key)

\* k = (k1 + k2) ^ ((k1 << 5) | (k2 >> 3)), on Python's unbounded integers.
Combine(k1, k2) ==
  BitXor(k1 + k2, BitOr(k1 * Pow2(ShiftLeft), k2 \div Pow2(ShiftRight)))

\* k1 = self._s1[(self._s1[self._x1] + self._s1[self._y1]) & 0xFF]
Lookup1(e) == e.s1[Byte(e.s1[e.x1] + e.s1[e.y1])]

\* k2 = self._s2[(self._s2[self._x2] + self._s2[self._y2]) & 0xFF]
Lookup2(e) == e.s2[Byte(e.s2[e.x2] + e.s2[e.y2])]

\* The key byte from the state e1 after self._prga(self._s1) and the state e2
\* after self._prga(self._s2).
KeyFrom(e1, e2) == [e |-> e2, k |-> Combine(Lookup1(e1), Lookup2(e2))]

\* The second half of an iteration, from the state after self._prga(self._s1).
KeyAfterS1(e1) == KeyFrom(e1, _prga(e1, 2))

\* The key byte of one iteration of the loop of transform_block: both _prga
\* calls, the two table lookups and the combiner; e is the state it leaves.
NextKey(e) == KeyAfterS1(_prga(e, 1))

\* output_buffer[index] = value succeeds: a bytearray takes only 0..255 (it
\* raises ValueError otherwise), a list takes any integer.
CanStore(buffer, value) ==
  buffer.kind = "list" \/ (buffer.kind = "bytearray" /\ value \in 0..(BlockSize - 1))

\* The result of a transform_block call: the cipher state, the output buffer,
\* the error raised (if any), the bytes written and the value returned (-1
\* when the call raised).
Result(e, out, err, written, ret) ==
  [e |-> e, out |-> out, err |-> err, written |-> written, ret |-> ret]

RECURSIVE TransformLoop(_, _, _, _, _, _, _)

\* Iteration i of the loop of transform_block with its key byte nk.k:
\* output_buffer[output_offset + i] = input_buffer[input_offset + i] ^ k.
TransformStep(nk, input_buffer, input_offset, input_count, output_buffer, output_offset, i) ==
  LET value == BitXor(input_buffer.data[input_offset + i + 1], nk.k)
  IN IF CanStore(output_buffer, value)
       THEN TransformLoop(nk.e, input_buffer, input_offset, input_count,
                          [output_buffer EXCEPT !.data[output_offset + i + 1] = value],
                          output_offset, i + 1)
       ELSE Result(nk.e, output_buffer,
                   Raised("ValueError", "byte must be in range(0, 256)"), i, -1)

\* The loop of transform_block from iteration i on, and its return.
TransformLoop(e, input_buffer, input_offset, input_count, output_buffer, output_offset, i) ==
  IF i >= input_count
    THEN Result(e, output_buffer, NoError, i, input_count)
    ELSE TransformStep(NextKey(e), input_buffer, input_offset, input_count,
                       output_buffer, output_offset, i)

\* The argument checks of transform_block without the last one (the capacity of
\* the output buffer).
TransformBlockCheckNoCapacity(input_buffer, input_offset, input_count, output_buffer, output_offset) ==
  IF input_buffer = None
    THEN Raised("ValueError", "Input buffer cannot be null.")
  ELSE IF output_buffer = None
    THEN Raised("ValueError", "Output buffer cannot be null.")
  ELSE IF input_offset < 0 \/ input_offset >= Len(input_buffer.data)
    THEN Raised("ValueError", "Input offset is out of range for the input buffer.")
  ELSE IF input_count < 0 \/ input_offset + input_count > Len(input_buffer.data)
    THEN Raised("ValueError", "Input count is out of range for the input buffer.")
  ELSE IF output_offset < 0 \/ output_offset >= Len(output_buffer.data)
    THEN Raised("ValueError", "Output offset is out of range for the output buffer.")
  ELSE NoError

\* The argument checks of transform_block, in the order of the source: the
\* error of the first check that fails, NoError when all pass.
TransformBlockCheck(input_buffer, input_offset, input_count, output_buffer, output_offset) ==
  IF input_buffer = None
    THEN Raised("ValueError", "Input buffer cannot be null.")
  ELSE IF output_buffer = None
    THEN Raised("ValueError", "Output buffer cannot be null.")
  ELSE IF input_offset < 0 \/ input_offset >= Len(input_buffer.data)
    THEN Raised("ValueError", "Input offset is out of range for the input buffer.")
  ELSE IF input_count < 0 \/ input_offset + input_count > Len(input_buffer.data)
    THEN Raised("ValueError", "Input count is out of range for the input buffer.")
  ELSE IF output_offset < 0 \/ output_offset >= Len(output_buffer.data)
    THEN Raised("ValueError", "Output offset is out of range for the output buffer.")
  ELSE IF output_offset + input_count > Len(output_buffer.data)
    THEN Raised("ValueError", "Output buffer is too small to receive the transformed data.")
  ELSE NoError

\* transform_block: the checks, then the loop.
transform_block(e, input_buffer, input_offset, input_count, output_buffer, output_offset) ==
  LET err == TransformBlockCheck(input_buffer, input_offset, input_count,
                                 output_buffer, output_offset)
  IN IF err # NoError
       THEN Result(e, output_buffer, err, 0, -1)
       ELSE TransformLoop(e, input_buffer, input_offset, input_count,
                          output_buffer, output_offset, 0)

\* The argument checks of transform_final_block itself.
TransformFinalBlockCheck(input_buffer, input_offset, input_count) ==
  IF input_buffer = None
    THEN Raised("ValueError", "Input buffer cannot be null.")
  ELSE IF input_offset < 0 \/ input_offset >= Len(input_buffer.data)
    THEN Raised("ValueError", "Input offset is out of range for the input buffer.")
  ELSE IF input_count < 0 \/ input_offset + input_count > Len(input_buffer.data)
    THEN Raised("ValueError", "Input count is out of range for the input buffer.")
  ELSE NoError

\* What transform_final_block returns after its transform_block call r: the
\* buffer (out), None when the call raised.
FinalResult(r) ==
  Result(r.e, IF r.err = NoError THEN r.out ELSE None, r.err, r.written, r.ret)

\* transform_final_block: its checks, final_block = bytearray(input_count), then
\* transform_block into it at offset 0.
transform_final_block(e, input_buffer, input_offset, input_count) ==
  LET err == TransformFinalBlockCheck(input_buffer, input_offset, input_count)
  IN IF err # NoError
       THEN Result(e, None, err, 0, -1)
       ELSE FinalResult(transform_block(e, input_buffer, input_offset, input_count,
                                        Buf("bytearray", Zeros(input_count)), 0))

\* A dispose() that zeroes the tables and leaves the indices as they are.
DisposeKeepsIndices(e, isDisposed) ==
  IF ~isDisposed
    THEN [e |-> State(ZeroBlock, ZeroBlock, e.x1, e.y1, e.x2, e.y2), disposed |-> TRUE]
    ELSE [e |-> e, disposed |-> isDisposed]

\* dispose(): zeroes the tables and the indices once; later calls change nothing.
dispose(e, isDisposed) ==
  IF ~isDisposed
    THEN [e |-> State(ZeroBlock, ZeroBlock, 0, 0, 0, 0), disposed |-> TRUE]
    ELSE [e |-> e, disposed |-> isDisposed]

\* __init__(key, iv): the three checks, the fields, then _initialize. With an
\* empty key both _lcr calls have run when _ksa raises at key[i % key_length].
\* built says whether the fields of lines 111-116 were assigned.
ARC4CryptoTransform(k, v) ==
  LET blank == State(ZeroBlock, ZeroBlock, 0, 0, 0, 0)
  IN IF k = None
       THEN [built |-> FALSE, e |-> blank, err |-> Raised("ValueError", "Key cannot be null.")]
     ELSE IF v = None
       THEN [built |-> FALSE, e |-> blank,
             err |-> Raised("ValueError", "Initialization vector cannot be null.")]
     ELSE IF Len(v.data) # IvLength
       THEN [built |-> FALSE, e |-> blank,
             err |-> Raised("ValueError", "Initialization vector must be 4 bytes long.")]
     ELSE IF Len(k.data) = 0
       THEN [built |-> TRUE, e |-> InitializeLcr(blank, v.data),
             err |-> Raised("ZeroDivisionError", "integer modulo by zero")]
     ELSE [built |-> TRUE, e |-> _initialize(blank, k.data, v.data), err |-> NoError]

\* ------------------------------------------------------------ the callers

\* "password".encode('utf-8'), the key of the test in __main__.
Password == << 112, 97, 115, 115, 119, 111, 114, 100 >>

\* "Hello, world!".encode('utf-8'), the data of the test in __main__.
Hello == << 72, 101, 108, 108, 111, 44, 32, 119, 111, 114, 108, 100, 33 >>

\* The keys a caller constructs an engine with: none, empty, the test's.
Keys == { None, Buf("bytes", << >>), Buf("bytes", Password) }

\* The IVs a caller constructs an engine with: none, too short, too long, valid.
IVs ==
  { None, Buf("bytes", << 0, 0, 0 >>), Buf("bytes", << 0, 0, 0, 0, 0 >>),
    Buf("bytes", << 0, 0, 0, 0 >>), Buf("bytes", << 0, 2, 200, 200 >>) }

\* The plaintexts of every length up to MaxLen: the start of the test's data.
Plaintexts == { Buf("bytes", SubSeq(Hello, 1, n)) : n \in 0..MaxLen }

\* The input buffers of the transform calls: none, the empty one and the longest
\* (a shorter input is a range of it).
InputBuffers == { None, Buf("bytes", << >>), Buf("bytes", SubSeq(Hello, 1, MaxLen)) }

\* The caller's output buffers: none, an empty bytearray, and a zeroed bytearray
\* and list of length MaxLen.
OutputBuffers ==
  { None, Buf("bytearray", Zeros(0)), Buf("bytearray", Zeros(MaxLen)), Buf("list", Zeros(MaxLen)) }

\* The offsets a caller passes with a buffer: from one below the first index to
\* the buffer's length (one past the last index).
Offsets(buffer) == -1..Len(buffer.data)

\* The counts a caller passes with a buffer: from -1 to one more than it holds.
Counts(buffer) == -1..(Len(buffer.data) + 1)

\* The (input_buffer, input_offset, input_count) arguments of a transform call.
InputArgs ==
  UNION { { << b, o, c >> : o \in Offsets(b), c \in Counts(b) } : b \in InputBuffers }

\* ------------------------------------------------------------------ state

VARIABLES
  status,          \* "new" before __init__, "ready" after it returned, "failed" after it raised
  key, iv,         \* self._key, self._iv
  s1, s2,          \* self._s1, self._s2
  x1, y1, x2, y2,  \* self._x1, self._y1, self._x2, self._y2
  disposed,        \* self._disposed
  output_buffer,   \* the caller's output buffer, written by transform_block
  final_block,     \* the buffer the last call returned (transform_final_block alone returns one), None otherwise
  lastCall,        \* the last call: its name, the error it raised, the bytes written, the count returned
  ncalls           \* the number of transform calls made so far

engine == << s1, s2, x1, y1, x2, y2 >>

vars ==
  << status, key, iv, s1, s2, x1, y1, x2, y2, disposed,
     output_buffer, final_block, lastCall, ncalls >>

\* The cipher state as one value.
Self == State(s1, s2, x1, y1, x2, y2)

Call(op, err, written, ret) == [op |-> op, err |-> err, written |-> written, ret |-> ret]

\* No engine yet; the caller holds an output buffer.
Init ==
  /\ status = "new"
  /\ key = None
  /\ iv = None
  /\ s1 = << >>
  /\ s2 = << >>
  /\ x1 = 0
  /\ y1 = 0
  /\ x2 = 0
  /\ y2 = 0
  /\ disposed = FALSE
  /\ output_buffer \in OutputBuffers
  /\ final_block = None
  /\ lastCall = Call("", NoError, 0, -1)
  /\ ncalls = 0

\* rc4 = ARC4CryptoTransform(k, v)
Construct ==
  /\ status = "new"
  /\ \E k \in Keys, v \in IVs :
       \E r \in { ARC4CryptoTransform(k, v) } :
         /\ status' = IF r.err = NoError THEN "ready" ELSE "failed"
         /\ key' = IF r.built THEN k ELSE key
         /\ iv' = IF r.built THEN v ELSE iv
         /\ s1' = IF r.built THEN r.e.s1 ELSE s1
         /\ s2' = IF r.built THEN r.e.s2 ELSE s2
         /\ x1' = r.e.x1
         /\ y1' = r.e.y1
         /\ x2' = r.e.x2
         /\ y2' = r.e.y2
         /\ lastCall' = Call("__init__", r.err, 0, -1)
         /\ UNCHANGED << disposed, output_buffer, final_block, ncalls >>

\* rc4.transform_block(input_buffer, input_offset, input_count, output_buffer, output_offset)
TransformBlock ==
  /\ status = "ready"
  /\ ncalls < MaxCalls
  /\ \E a \in InputArgs, output_offset \in Offsets(output_buffer) :
       \E r \in { transform_block(Self, a[1], a[2], a[3], output_buffer, output_offset) } :
         /\ s1' = r.e.s1
         /\ s2' = r.e.s2
         /\ x1' = r.e.x1
         /\ y1' = r.e.y1
         /\ x2' = r.e.x2
         /\ y2' = r.e.y2
         /\ output_buffer' = r.out
         /\ lastCall' = Call("transform_block", r.err, r.written, r.ret)
         /\ final_block' = None
         /\ ncalls' = ncalls + 1
         /\ UNCHANGED << status, key, iv, disposed >>

\* rc4.transform_final_block(input_buffer, input_offset, input_count)
TransformFinalBlock ==
  /\ status = "ready"
  /\ ncalls < MaxCalls
  /\ \E a \in InputArgs :
       \E r \in { transform_final_block(Self, a[1], a[2], a[3]) } :
         /\ s1' = r.e.s1
         /\ s2' = r.e.s2
         /\ x1' = r.e.x1
         /\ y1' = r.e.y1
         /\ x2' = r.e.x2
         /\ y2' = r.e.y2
         /\ final_block' = r.out
         /\ lastCall' = Call("transform_final_block", r.err, r.written, r.ret)
         /\ ncalls' = ncalls + 1
         /\ UNCHANGED << status, key, iv, disposed, output_buffer >>

\* rc4.dispose()
Dispose ==
  /\ status = "ready"
  /\ \E r \in { dispose(Self, disposed) } :
       /\ s1' = r.e.s1
       /\ s2' = r.e.s2
       /\ x1' = r.e.x1
       /\ y1' = r.e.y1
       /\ x2' = r.e.x2
       /\ y2' = r.e.y2
       /\ disposed' = r.disposed
       /\ lastCall' = Call("dispose", NoError, 0, -1)
       /\ final_block' = None
       /\ UNCHANGED << status, key, iv, output_buffer, ncalls >>

Next == Construct \/ TransformBlock \/ TransformFinalBlock \/ Dispose

Spec == Init /\ [][Next]_vars

\* ------------------------------------------------------------ properties

\* Every value 0..255 exactly once.
IsPermutation(sblock) ==
  /\ DOMAIN sblock = 0..(BlockSize - 1)
  /\ { sblock[i] : i \in DOMAIN sblock } = 0..(BlockSize - 1)

\* The messages of the out-of-range checks of transform_block.
RangeErrors ==
  { "Input offset is out of range for the input buffer.",
    "Input count is out of range for the input buffer.",
    "Output offset is out of range for the output buffer.",
    "Output buffer is too small to receive the transformed data." }

\* The messages of all the argument checks of the transform calls.
ArgumentErrors ==
  RangeErrors \cup { "Input buffer cannot be null.", "Output buffer cannot be null." }

TransformCalls == { "transform_block", "transform_final_block" }

\* The cipher state n keystream bytes after e.
RECURSIVE Advance(_, _)
Advance(e, n) == IF n <= 0 THEN e ELSE Advance(NextKey(e).e, n - 1)

\* One phase of the test in __main__: encrypt data with a fresh engine, then
\* transform the result with a second fresh engine of the same key and IV. A
\* call that raises ends the phase (decrypted is then None).
MainPhase(k, v, data) ==
  LET encrypted == transform_final_block(ARC4CryptoTransform(k, v).e, data, 0, Len(data.data))
      decrypted == transform_final_block(ARC4CryptoTransform(k, v).e, encrypted.out, 0,
                                         Len(encrypted.out.data))
  IN IF encrypted.err # NoError
       THEN [err |-> encrypted.err, decrypted |-> None]
       ELSE [err |-> decrypted.err, decrypted |-> decrypted.out]

\* C1 (round trip): for the key and IV of every constructed engine and every
\* plaintext of length 0..MaxLen, encrypting with a fresh engine and transforming
\* the result with a second fresh engine completes and returns the plaintext.
C1_RoundTrip ==
  (status = "ready" /\ ncalls = 0 /\ ~disposed) =>
    \A p \in Plaintexts :
      LET r == MainPhase(key, iv, p)
      IN r.err = NoError /\ r.decrypted.data = p.data

\* C2 (streaming equivalence): in every state of a live engine, for every input
\* of length n >= 2 split into two chunks n1 + n2 = n and written to the caller's
\* output buffer, the two transform_block calls in order return n1 and n2, leave
\* the output and the cipher state of the single call over n bytes, and every
\* call advances the cipher state by exactly its count of keystream bytes.
C2_StreamingEquivalence ==
  (status = "ready" /\ ~disposed /\ output_buffer # None) =>
    \A p \in Plaintexts :
      \A n1 \in 1..(Len(p.data) - 1) :
        LET n == Len(p.data)
            whole == transform_block(Self, p, 0, n, output_buffer, 0)
            first == transform_block(Self, p, 0, n1, output_buffer, 0)
            second == transform_block(first.e, p, n1, n - n1, first.out, n1)
        IN Len(output_buffer.data) >= n =>
             /\ whole.ret = n /\ first.ret = n1 /\ second.ret = n - n1
             /\ whole.e = Advance(Self, n)
             /\ first.e = Advance(Self, n1)
             /\ second.e = whole.e
             /\ second.out = whole.out

\* C3 (construction validation): a construction that fails raised ValueError
\* from the constructor's own checks, before any table was built; a construction
\* that succeeds had a non-empty key and a 4-byte IV (so that a None or empty
\* key, and a None or wrong-length IV, always fail).
C3_ConstructionValidation ==
  /\ status = "failed" => (lastCall.err.exc = "ValueError" /\ s1 = << >> /\ s2 = << >>)
  /\ status = "ready" => (Len(key.data) >= 1 /\ Len(iv.data) = IvLength)

\* C4 (bounds enforcement without effect): in every state where a constructed
\* engine can take a transform call, a transform_block call on non-null buffers
\* with a negative offset or count, input_offset + count > len(input) or
\* output_offset + count > len(output) raises ValueError from one of the range
\* checks, writes nothing and leaves the output buffer and the cipher state as
\* they were.
C4_BoundsEnforcement ==
  (status = "ready" /\ ncalls < MaxCalls /\ output_buffer # None) =>
    \A e \in { Self }, a \in InputArgs, output_offset \in Offsets(output_buffer) :
      (/\ a[1] # None
       /\ \/ a[2] < 0 \/ a[3] < 0 \/ output_offset < 0
          \/ a[2] + a[3] > Len(a[1].data)
          \/ output_offset + a[3] > Len(output_buffer.data))
        => \A r \in { transform_block(e, a[1], a[2], a[3], output_buffer, output_offset) } :
             /\ r.err.exc = "ValueError"
             /\ r.err.msg \in RangeErrors
             /\ r.written = 0
             /\ r.out = output_buffer
             /\ r.e = e

\* C4, as the calls of the model show it: a transform_block step that ends in a
\* range error changes neither the cipher state nor the output buffer.
C4_Witness ==
  /\ lastCall.op = "transform_block"
  /\ lastCall.err.msg \in { "Input count is out of range for the input buffer.",
                            "Output buffer is too small to receive the transformed data." }
  /\ ~disposed
  /\ output_buffer # None
  /\ \E i \in DOMAIN output_buffer.data : output_buffer.data[i] # 0

\* C5 (zero-length no-op): in every state of a constructed engine, every
\* transform call with count 0 on non-null buffers and offsets from 0 to the
\* buffer's length returns 0 (an empty buffer for transform_final_block) without
\* raising, and leaves the cipher state and the output buffer as they were.
C5_ZeroLengthNoOp ==
  (status = "ready" /\ output_buffer # None) =>
    \A a \in InputArgs :
      (a[1] # None /\ a[2] >= 0 /\ a[3] = 0) =>
        /\ \A output_offset \in 0..Len(output_buffer.data) :
             LET r == transform_block(Self, a[1], a[2], a[3], output_buffer, output_offset)
             IN r.err = NoError /\ r.ret = 0 /\ r.e = Self /\ r.out = output_buffer
        /\ LET f == transform_final_block(Self, a[1], a[2], a[3])
           IN f.err = NoError /\ f.out = Buf("bytearray", << >>) /\ f.e = Self

\* C6 (no mid-transform failure): a transform call whose argument checks all
\* passed raised nothing; transform_final_block then returned a bytearray of
\* exactly count bytes.
C6_NoMidTransformFailure ==
  (lastCall.op \in TransformCalls /\ lastCall.err.msg \notin ArgumentErrors) =>
    /\ lastCall.err = NoError
    /\ lastCall.op = "transform_final_block" =>
         (final_block.kind = "bytearray" /\ Len(final_block.data) = lastCall.ret)

\* C7 (disposal): a dispose() step on an engine not yet disposed (fresh or after
\* any transform calls) leaves both S-blocks all zero, the four indices 0 and
\* the disposed flag set; it raises nothing; a dispose() step on a disposed
\* engine leaves the whole state of the engine unchanged.
C7_Disposal ==
  [][Dispose =>
       /\ lastCall'.err = NoError
       /\ disposed'
       /\ ~disposed => (/\ s1' = ZeroBlock /\ s2' = ZeroBlock
                        /\ x1' = 0 /\ y1' = 0 /\ x2' = 0 /\ y2' = 0)
       /\ disposed => UNCHANGED << engine, disposed >>]_vars

\* C7: dispose() was called after a transform call had moved the cipher state.
C7_Witness ==
  /\ lastCall.op = "dispose"
  /\ ncalls >= 1
  /\ disposed
  /\ s1 = ZeroBlock /\ s2 = ZeroBlock
  /\ x1 = 0 /\ y1 = 0 /\ x2 = 0 /\ y2 = 0

\* C8 (independent index pairs): a transform call that returns n has advanced
\* x1 by n and x2 by n (mod 256): each keystream byte steps S1 with (x1, y1)
\* alone and S2 with (x2, y2) alone.
C8_IndependentIndexPairs ==
  [][(TransformBlock /\ lastCall'.err = NoError /\ ~disposed) =>
       /\ x1' = Byte(x1 + lastCall'.ret)
       /\ x2' = Byte(x2 + lastCall'.ret)]_vars

\* C9 (combiner truncation): the key byte XORed into the data is truncated to
\* 0..255, so that every value transform_block wrote to the caller's output
\* buffer from an input of bytes is a byte.
C9_CombinerTruncation ==
  \A i \in DOMAIN output_buffer.data : output_buffer.data[i] \in 0..(BlockSize - 1)

\* The seeds of the permutation check of _lcr: every multiplier and increment
\* of the tables, with r = 0xAA and the start value 0x55.
LcrSeeds ==
  { << rx[1], rx[2], ai, ci >> :
      rx \in { << 170, 85 >> }, ai \in 0..(Len(_A) - 1), ci \in 0..(Len(_C) - 1) }

\* _lcr fills a block with every value 0..255 exactly once, for every seed.
LcrFillsPermutations == \A seed \in LcrSeeds : IsPermutation(_lcr(ZeroBlock, seed))

\* C10 (S-block permutation): _lcr fills a block with every value 0..255 exactly
\* once for every seed, and S1 and S2 are permutations of 0..255 in every state
\* of a constructed engine until dispose() zeroes them. (What _lcr does with a
\* seed does not depend on the state: the seeds are gone through once, in the
\* state before construction where the caller holds no buffer.)
C10_SBlockPermutation ==
  /\ (status = "ready" /\ ~disposed) => (IsPermutation(s1) /\ IsPermutation(s2))
  /\ (status = "new" /\ output_buffer = None) => LcrFillsPermutations

\* C10: a transform call has stepped both S-blocks of a live engine.
C10_Witness ==
  /\ status = "ready"
  /\ ~disposed
  /\ lastCall.op \in TransformCalls
  /\ lastCall.written >= 1
  /\ IsPermutation(s1) /\ IsPermutation(s2)

====
